---- MODULE Spec2Model ----
(***************************************************************************)
(* Verification model of the portfolio page: the contact form and its      *)
(* mailto builder, the asset resolver and its fallback chain, the tag      *)
(* helpers and the works archive of HeroScroll.                            *)
(*                                                                         *)
(* A JavaScript string is modelled as a sequence of one-character strings, *)
(* so that trimming, prefix tests, regular-expression tests, percent       *)
(* encoding and substring replacement are computed character by character. *)
(***************************************************************************)
EXTENDS Integers, Sequences, FiniteSets, TLC

VARIABLES
  \* ContactForm state (useState hooks) and what its handlers did
  name, email, budget, timeline, message, agree, err,
  location, clipboard, effects, clipboardApi,
  \* buildMailto called as a function
  mTo, mSubject, mBody, mUri,
  \* asset / assetChain called as functions
  aName, aDoc, aResult, aChain,
  \* uniqueTags / filterByTag called as functions
  tItems, tTag, tUnique, tFiltered,
  \* HeroScroll component state
  activeTag, phase, mqMatches, reduced, listeners, heroProgress, aboutProg, scrollYProgress,
  \* clamp01 / mapRangeClamped called as functions
  nX, nInMin, nInMax, nOutMin, nOutMax, nClamp, nMap, nBlur,
  \* SmartImg state and the asset-error list of HeroScroll
  mDoc, debug, imgSources, imgIdx, imgErrorCount, assetErrors,
  \* isLogoOverlayEnabled / shouldUseBlend called as functions
  lSrc, lEnabled, lBlend,
  \* PortfolioLanding: component state, each card's hover, the location hash
  activeTab, mounted, hover, hash

formVars  == <<name, email, budget, timeline, message, agree, err,
               location, clipboard, effects, clipboardApi>>
mailVars  == <<mTo, mSubject, mBody, mUri>>
assetVars == <<aName, aDoc, aResult, aChain>>
tagVars   == <<tItems, tTag, tUnique, tFiltered>>
pageVars  == <<activeTag, phase, mqMatches, reduced, listeners, heroProgress, aboutProg,
               scrollYProgress>>
numVars   == <<nX, nInMin, nInMax, nOutMin, nOutMax, nClamp, nMap, nBlur>>
mediaVars == <<mDoc, debug, imgSources, imgIdx, imgErrorCount, assetErrors>>
logoVars  == <<lSrc, lEnabled, lBlend>>
landingVars == <<activeTab, mounted, hover, hash>>
vars      == <<formVars, mailVars, assetVars, tagVars, pageVars, numVars, mediaVars, logoVars,
               landingVars>>

\* what each component's steps leave alone
notForm  == <<mailVars, assetVars, tagVars, pageVars, numVars, mediaVars, logoVars,
               landingVars>>
notMail  == <<formVars, assetVars, tagVars, pageVars, numVars, mediaVars, logoVars,
               landingVars>>
notAsset == <<formVars, mailVars, tagVars, pageVars, numVars, mediaVars, logoVars,
               landingVars>>
notTag   == <<formVars, mailVars, assetVars, pageVars, numVars, mediaVars, logoVars,
               landingVars>>
notPage  == <<formVars, mailVars, assetVars, tagVars, numVars, mediaVars, logoVars,
               landingVars>>
notNum   == <<formVars, mailVars, assetVars, tagVars, pageVars, mediaVars, logoVars,
               landingVars>>
notMedia == <<formVars, mailVars, assetVars, tagVars, pageVars, numVars, logoVars,
               landingVars>>
notLogo  == <<formVars, mailVars, assetVars, tagVars, pageVars, numVars, mediaVars,
               landingVars>>
notLanding == <<formVars, mailVars, assetVars, tagVars, pageVars, numVars, mediaVars, logoVars>>

(***************************************************************************)
(* Strings                                                                 *)
(***************************************************************************)

\* null, for a value that is otherwise an atom
Null == "null"

\* null or undefined, for a value that is otherwise a string
NullStr == <<"null">>

\* the line feed character
LF == "\n"

\* All strings over alphabet A of length at most n.
Strs(A, n) == UNION {[1..k -> A] : k \in 0..n}

\* /\s/ restricted to the characters the model uses
IsSpace(c) == c \in {" ", LF}

RECURSIVE TrimStart(_)
TrimStart(s) ==
  IF s = <<>> THEN <<>>
  ELSE IF IsSpace(Head(s)) THEN TrimStart(Tail(s)) ELSE s

RECURSIVE TrimEnd(_)
TrimEnd(s) ==
  IF s = <<>> THEN <<>>
  ELSE IF IsSpace(s[Len(s)]) THEN TrimEnd(SubSeq(s, 1, Len(s) - 1)) ELSE s

\* String.prototype.trim
Trim(s) == TrimEnd(TrimStart(s))

\* String.prototype.startsWith
StartsWith(s, p) == Len(s) >= Len(p) /\ SubSeq(s, 1, Len(p)) = p

\* String.prototype.endsWith
EndsWith(s, p) == Len(s) >= Len(p) /\ SubSeq(s, Len(s) - Len(p) + 1, Len(s)) = p

\* Array.prototype.includes
Includes(seq, x) == \E i \in 1..Len(seq) : seq[i] = x

\* Array.prototype.join
RECURSIVE Join(_, _)
Join(parts, sep) ==
  IF parts = <<>> THEN <<>>
  ELSE IF Len(parts) = 1 THEN parts[1]
  ELSE parts[1] \o sep \o Join(Tail(parts), sep)

\* Array.from(new Set(xs)): insertion order, first occurrence kept
RECURSIVE SetToArray(_, _)
SetToArray(xs, seen) ==
  IF xs = <<>> THEN seen
  ELSE SetToArray(Tail(xs), IF Includes(seen, Head(xs)) THEN seen ELSE Append(seen, Head(xs)))

(***************************************************************************)
(* encodeURIComponent and buildMailto                                      *)
(***************************************************************************)

AlphaNum ==
  {"a","b","c","d","e","f","g","h","i","j","k","l","m","n","o","p","q","r","s","t",
   "u","v","w","x","y","z","A","B","C","D","E","F","G","H","I","J","K","L","M","N",
   "O","P","Q","R","S","T","U","V","W","X","Y","Z","0","1","2","3","4","5","6","7",
   "8","9"}

\* the characters encodeURIComponent leaves alone
Unreserved == AlphaNum \cup {"-", "_", ".", "!", "~", "*", "'", "(", ")"}

\* the UTF-8 escape of every other character the model uses
PctTable(c) ==
  CASE c = " " -> <<"%", "2", "0">>
    [] c = LF  -> <<"%", "0", "A">>
    [] c = "%" -> <<"%", "2", "5">>
    [] c = "&" -> <<"%", "2", "6">>
    [] c = "+" -> <<"%", "2", "B">>
    [] c = "/" -> <<"%", "2", "F">>
    [] c = ":" -> <<"%", "3", "A">>
    [] c = "=" -> <<"%", "3", "D">>
    [] c = "?" -> <<"%", "3", "F">>
    [] c = "@" -> <<"%", "4", "0">>
    [] c = "[" -> <<"%", "5", "B">>
    [] c = "]" -> <<"%", "5", "D">>

EncodeChar(c) == IF c \in Unreserved THEN <<c>> ELSE PctTable(c)

RECURSIVE encodeURIComponent(_)
encodeURIComponent(s) ==
  IF s = <<>> THEN <<>> ELSE EncodeChar(Head(s)) \o encodeURIComponent(Tail(s))

\* s.replace(/%20/g, "+"): every occurrence, scanning left to right
RECURSIVE ReplaceAll(_, _, _)
ReplaceAll(s, pat, rep) ==
  IF s = <<>> THEN <<>>
  ELSE IF StartsWith(s, pat)
         THEN rep \o ReplaceAll(SubSeq(s, Len(pat) + 1, Len(s)), pat, rep)
         ELSE <<Head(s)>> \o ReplaceAll(Tail(s), pat, rep)

EncMutantKeepsAmp(s) ==
  ReplaceAll(ReplaceAll(encodeURIComponent(s), <<"%", "2", "0">>, <<"+">>),
             <<"%", "2", "6">>, <<"&">>)

enc(s) == ReplaceAll(encodeURIComponent(s), <<"%", "2", "0">>, <<"+">>)

MailtoScheme == <<"m", "a", "i", "l", "t", "o", ":">>
SubjectKey   == <<"?", "s", "u", "b", "j", "e", "c", "t", "=">>
BodyKey      == <<"&", "b", "o", "d", "y", "=">>

buildMailto(to_, subject, body) ==
  MailtoScheme \o to_ \o SubjectKey \o enc(subject) \o BodyKey \o enc(body)

(***************************************************************************)
(* ContactForm                                                             *)
(***************************************************************************)

\* const to = "su96hwang@gmail.com"
to == <<"s","u","9","6","h","w","a","n","g","@","g","m","a","i","l",".","c","o","m">>

\* the three messages onSubmit can surface, named after what they report
ErrMissingField    == "MissingField"
ErrInvalidEmail    == "InvalidEmail"
ErrConsentRequired == "ConsentRequired"

\* [^\s@]
EmailClass(c) == ~IsSpace(c) /\ c # "@"

\* /^[^\s@]+@[^\s@]+\.[^\s@]+$/ as a position automaton: 0 before the local
\* part, 1 inside it, 2 after "@", 3 inside the domain, 4 after a ".",
\* 5 inside the last label (accepting).  Q is the set of live positions.
RegexStep(Q, c) ==
  (IF EmailClass(c) /\ Q \cap {0, 1} # {} THEN {1} ELSE {})
  \cup (IF c = "@" /\ 1 \in Q THEN {2} ELSE {})
  \cup (IF EmailClass(c) /\ Q \cap {2, 3} # {} THEN {3} ELSE {})
  \cup (IF c = "." /\ 3 \in Q THEN {4} ELSE {})
  \cup (IF EmailClass(c) /\ Q \cap {4, 5} # {} THEN {5} ELSE {})

RECURSIVE RegexRun(_, _)
RegexRun(s, Q) == IF s = <<>> THEN Q ELSE RegexRun(Tail(s), RegexStep(Q, Head(s)))

EmailRegexTest(s) == 5 \in RegexRun(s, {0})

FirstFailureConsentFirst(n, e, m, a) ==
  IF Trim(n) = <<>> \/ Trim(e) = <<>> \/ Trim(m) = <<>> THEN ErrMissingField
  ELSE IF ~a THEN ErrConsentRequired
  ELSE IF ~EmailRegexTest(e) THEN ErrInvalidEmail
  ELSE Null

FirstFailureNoConsent(n, e, m, a) ==
  IF Trim(n) = <<>> \/ Trim(e) = <<>> \/ Trim(m) = <<>> THEN ErrMissingField
  ELSE IF ~EmailRegexTest(e) THEN ErrInvalidEmail
  ELSE Null

\* the early returns of onSubmit: the message it sets, or Null when it goes on
FirstFailure(n, e, m, a) ==
  IF Trim(n) = <<>> \/ Trim(e) = <<>> \/ Trim(m) = <<>> THEN ErrMissingField
  ELSE IF ~EmailRegexTest(e) THEN ErrInvalidEmail
  ELSE IF ~a THEN ErrConsentRequired
  ELSE Null

SubjectPrefix ==
  <<"[","P","o","r","t","f","o","l","i","o"," ","I","n","q","u","i","r","y","]"," ">>
NameLabel     == <<"N","a","m","e",":"," ">>
EmailLabel    == <<"E","m","a","i","l",":"," ">>
BudgetLabel   == <<"B","u","d","g","e","t",":"," ">>
TimelineLabel == <<"T","i","m","e","l","i","n","e",":"," ">>

Subject(n) == SubjectPrefix \o n

\* [...].filter(Boolean): null and the empty string are both falsy
RECURSIVE FilterBoolean(_)
FilterBoolean(xs) ==
  IF xs = <<>> THEN <<>>
  ELSE IF Head(xs) = NullStr \/ Head(xs) = <<>> THEN FilterBoolean(Tail(xs))
  ELSE <<Head(xs)>> \o FilterBoolean(Tail(xs))

Lines(n, e, b, t, m) ==
  FilterBoolean(<<NameLabel \o n,
                  EmailLabel \o e,
                  IF b # <<>> THEN BudgetLabel \o b ELSE NullStr,
                  IF t # <<>> THEN TimelineLabel \o t ELSE NullStr,
                  <<>>,
                  m>>)

MailBody(n, e, b, t, m) == Join(Lines(n, e, b, t, m), <<LF>>)

Href(n, e, b, t, m) == buildMailto(to, Subject(n), MailBody(n, e, b, t, m))

ClipboardText(n, e, b, t, m) == Subject(n) \o <<LF, LF>> \o MailBody(n, e, b, t, m)

\* navigator.clipboard: missing, present but writeText throws, present but
\* the promise writeText returns is rejected, or working
ClipboardApis == {"absent", "throws", "rejects", "ok"}

SubmitEffectsClipboardFirst(api) ==
  (IF api = "absent" THEN <<>> ELSE <<"writeText">>) \o <<"navigate">>

\* what the handler called, in order
SubmitEffects(api) ==
  <<"navigate">> \o (IF api = "absent" THEN <<>> ELSE <<"writeText">>)

onSubmitClearsForm ==
  LET failure == FirstFailure(name, email, message, agree) IN
  /\ IF failure # Null
       THEN /\ err' = failure
            /\ effects' = <<>>
            /\ UNCHANGED <<location, clipboard, message>>
       ELSE /\ err' = Null
            /\ location' = Href(name, email, budget, timeline, message)
            /\ clipboard' = IF clipboardApi = "ok"
                              THEN ClipboardText(name, email, budget, timeline, message)
                              ELSE clipboard
            /\ effects' = SubmitEffects(clipboardApi)
            /\ message' = <<>>
  /\ UNCHANGED <<name, email, budget, timeline, agree, clipboardApi>>
  /\ UNCHANGED notForm

onSubmit ==
  LET failure == FirstFailure(name, email, message, agree) IN
  /\ IF failure # Null
       THEN /\ err' = failure
            /\ effects' = <<>>
            /\ UNCHANGED <<location, clipboard>>
       ELSE /\ err' = Null
            /\ location' = Href(name, email, budget, timeline, message)
            /\ clipboard' = IF clipboardApi = "ok"
                              THEN ClipboardText(name, email, budget, timeline, message)
                              ELSE clipboard
            /\ effects' = SubmitEffects(clipboardApi)
  /\ UNCHANGED <<name, email, budget, timeline, message, agree, clipboardApi>>
  /\ UNCHANGED notForm

\* what the user types or picks in the model
NameInputs     == {<<>>, <<" ">>, <<"a">>}
EmailInputs    == {<<>>, <<"a", "b", "c">>, <<"a", "@", "b", ".", "c">>,
                   <<" ", "a", "@", "b", ".", "c">>}
BudgetInputs   == {<<>>, <<"U", "S", "D", " ", "1", "0", "k", "+">>}
TimelineInputs == {<<>>, <<"Q", "1">>}
MessageInputs  == {<<>>, <<"a", " ", "b">>, <<"a", "+", "b">>}

setName ==
  /\ \E v \in NameInputs : name' = v
  /\ effects' = <<>>
  /\ UNCHANGED <<email, budget, timeline, message, agree, err, location, clipboard, clipboardApi>>
  /\ UNCHANGED notForm

setEmail ==
  /\ \E v \in EmailInputs : email' = v
  /\ effects' = <<>>
  /\ UNCHANGED <<name, budget, timeline, message, agree, err, location, clipboard, clipboardApi>>
  /\ UNCHANGED notForm

setBudget ==
  /\ \E v \in BudgetInputs : budget' = v
  /\ effects' = <<>>
  /\ UNCHANGED <<name, email, timeline, message, agree, err, location, clipboard, clipboardApi>>
  /\ UNCHANGED notForm

setTimeline ==
  /\ \E v \in TimelineInputs : timeline' = v
  /\ effects' = <<>>
  /\ UNCHANGED <<name, email, budget, message, agree, err, location, clipboard, clipboardApi>>
  /\ UNCHANGED notForm

setMessage ==
  /\ \E v \in MessageInputs : message' = v
  /\ effects' = <<>>
  /\ UNCHANGED <<name, email, budget, timeline, agree, err, location, clipboard, clipboardApi>>
  /\ UNCHANGED notForm

setAgree ==
  /\ \E v \in BOOLEAN : agree' = v
  /\ effects' = <<>>
  /\ UNCHANGED <<name, email, budget, timeline, message, err, location, clipboard, clipboardApi>>
  /\ UNCHANGED notForm

\* the page's own address, before any navigation
PageUrl == <<"/">>

FormInit ==
  /\ name = <<>> /\ email = <<>> /\ budget = <<>> /\ timeline = <<>> /\ message = <<>>
  /\ agree = FALSE
  /\ err = Null
  /\ location = PageUrl
  /\ clipboard = <<>>
  /\ effects = <<>>
  /\ clipboardApi \in ClipboardApis

FormIdle == FormInit /\ clipboardApi = "ok"

\* any payload the form can hold when Send is pressed
MaxEmailLen == 5
EmailAlphabet == {"a", " ", "@", "."}

SubmitInit ==
  /\ name \in NameInputs
  /\ email \in Strs(EmailAlphabet, MaxEmailLen)
  /\ message \in {<<>>, <<" ">>, <<"h", "i">>}
  /\ agree \in BOOLEAN
  /\ budget = <<>> /\ timeline = <<>>
  /\ err = Null
  /\ location = PageUrl
  /\ clipboard = <<>>
  /\ effects = <<>>
  /\ clipboardApi = "ok"

(***************************************************************************)
(* buildMailto as a function of its arguments                              *)
(***************************************************************************)

MaxSubjectLen == 1
MaxBodyLen == 3
SubjectAlphabet == {"a", " ", "&", "=", "?"}
BodyAlphabet == {" ", "+", "&", "%", "2", "0"}

MailInit ==
  /\ mTo = to
  /\ mSubject \in Strs(SubjectAlphabet, MaxSubjectLen)
  /\ mBody \in Strs(BodyAlphabet, MaxBodyLen)
  /\ mUri = NullStr

MailIdle ==
  /\ mTo = to
  /\ mSubject = <<>>
  /\ mBody = <<>>
  /\ mUri = NullStr

callBuildMailto ==
  /\ mUri' = buildMailto(mTo, mSubject, mBody)
  /\ UNCHANGED <<mTo, mSubject, mBody>>
  /\ UNCHANGED notMail

(***************************************************************************)
(* asset and assetChain                                                    *)
(***************************************************************************)

HttpScheme  == <<"h", "t", "t", "p", ":", "/", "/">>
HttpsScheme == <<"h", "t", "t", "p", "s", ":", "/", "/">>
Slash       == <<"/">>
MediaDir    == <<"m", "e", "d", "i", "a", "/">>
RootMedia   == Slash \o MediaDir

\* The document as asset() sees it: no document at all, a document whose
\* query throws, a document without <base>, a <base> without href, or a
\* <base href=...>.
Doc(kind, href) == [kind |-> kind, href |-> href]

baseHrefOf(doc) ==
  IF doc.kind = "base" /\ doc.href # <<>> THEN doc.href ELSE Slash

assetNoSlashFix(p, doc) ==
  IF p = <<>> THEN <<>>
  ELSE IF StartsWith(p, HttpScheme) \/ StartsWith(p, HttpsScheme) \/ StartsWith(p, Slash) THEN p
  ELSE IF doc.kind \in {"undefined", "throws"} THEN RootMedia \o p
  ELSE baseHrefOf(doc) \o MediaDir \o p

asset(p, doc) ==
  IF p = <<>> THEN <<>>
  ELSE IF StartsWith(p, HttpScheme) \/ StartsWith(p, HttpsScheme) \/ StartsWith(p, Slash) THEN p
  ELSE IF doc.kind \in {"undefined", "throws"} THEN RootMedia \o p
  ELSE LET baseHref == baseHrefOf(doc)
           prefix   == IF EndsWith(baseHref, Slash) THEN baseHref ELSE baseHref \o Slash
       IN  prefix \o MediaDir \o p

assetChainNoBare(p, doc) ==
  LET a == asset(p, doc) IN
  SetToArray(<<a>> \o (IF ~StartsWith(a, RootMedia) THEN <<RootMedia \o p>> ELSE <<>>), <<>>)

assetChainBareBeforeMedia(p, doc) ==
  LET a == asset(p, doc) IN
  SetToArray(<<a, Slash \o p>>
             \o (IF ~StartsWith(a, RootMedia) THEN <<RootMedia \o p>> ELSE <<>>), <<>>)

assetChain(p, doc) ==
  LET a      == asset(p, doc)
      chain1 == <<a>>
      chain2 == IF ~StartsWith(a, RootMedia) THEN Append(chain1, RootMedia \o p) ELSE chain1
      chain3 == Append(chain2, Slash \o p)
  IN  SetToArray(chain3, <<>>)

\* asset names: up to MaxPieces pieces put one after another
MaxPieces == 2
NamePieces == {Slash, MediaDir, <<"x">>, HttpScheme, HttpsScheme}

RECURSIVE NamesOf(_)
NamesOf(n) ==
  IF n = 0 THEN {<<>>}
  ELSE LET shorter == NamesOf(n - 1) IN
       shorter \cup {s \o q : s \in shorter, q \in NamePieces}

Names == NamesOf(MaxPieces)

AppBase == <<"/", "a", "p", "p">>
Docs ==
  {Doc("undefined", <<>>), Doc("throws", <<>>), Doc("nobase", <<>>), Doc("nohref", <<>>)}
  \cup {Doc("base", h) : h \in {<<>>, Slash, AppBase, AppBase \o Slash, RootMedia,
                                Slash \o <<"m", "e", "d", "i", "a">>}}

AssetInit ==
  /\ aName \in Names
  /\ aDoc \in Docs
  /\ aResult = NullStr
  /\ aChain = <<>>

AssetIdle ==
  /\ aName = <<>>
  /\ aDoc = Doc("nobase", <<>>)
  /\ aResult = NullStr
  /\ aChain = <<>>

callAsset ==
  /\ aResult' = asset(aName, aDoc)
  /\ UNCHANGED <<aName, aDoc, aChain>>
  /\ UNCHANGED notAsset

callAssetChain ==
  /\ aChain' = assetChain(aName, aDoc)
  /\ UNCHANGED <<aName, aDoc, aResult>>
  /\ UNCHANGED notAsset

(***************************************************************************)
(* uniqueTags and filterByTag                                              *)
(***************************************************************************)

\* for (const it of items) for (const t of it.tags): the tags in visiting order
RECURSIVE AllTagsInOrder(_)
AllTagsInOrder(items) ==
  IF items = <<>> THEN <<>> ELSE Head(items).tags \o AllTagsInOrder(Tail(items))

uniqueTagsNoSet(items) == AllTagsInOrder(items)

uniqueTags(items) == SetToArray(AllTagsInOrder(items), <<>>)

filterByTagFirstOnly(items, tag) ==
  IF tag = "" \/ tag = "All" THEN items
  ELSE SelectSeq(items, LAMBDA it : it.tags # <<>> /\ it.tags[1] = tag)

filterByTag(items, tag) ==
  IF tag = "" \/ tag = "All" THEN items
  ELSE SelectSeq(items, LAMBDA it : Includes(it.tags, tag))

\* catalogs: up to MaxItems items of up to MaxTagsPerItem tags each
MaxItems == 2
MaxTagsPerItem == 2
ItemTags == {"x", "y"}
QueryTags == {"x", "z", "All", ""}

TagLists == Strs(ItemTags, MaxTagsPerItem)
Catalogs ==
  UNION {{[i \in 1..k |-> [id |-> i, tags |-> tl[i]]] : tl \in [1..k -> TagLists]} : k \in 0..MaxItems}

\* "not called yet" for a list of items: item ids start at 1
NoItems == <<[id |-> 0, tags |-> <<>>]>>

TagInit ==
  /\ tItems \in Catalogs
  /\ tTag \in QueryTags
  /\ tUnique = <<Null>>
  /\ tFiltered = NoItems

TagIdle ==
  /\ tItems = <<>>
  /\ tTag = "All"
  /\ tUnique = <<Null>>
  /\ tFiltered = NoItems

callUniqueTags ==
  /\ tUnique' = uniqueTags(tItems)
  /\ UNCHANGED <<tItems, tTag, tFiltered>>
  /\ UNCHANGED notTag

callFilterByTag ==
  /\ tFiltered' = filterByTag(tItems, tTag)
  /\ UNCHANGED <<tItems, tTag, tUnique>>
  /\ UNCHANGED notTag

(***************************************************************************)
(* Numbers, clamp01 and mapRangeClamped                                    *)
(***************************************************************************)

\* A JavaScript number: a finite value n/d in lowest terms (d > 0), NaN,
\* +Infinity or -Infinity.  Finite arithmetic is exact.
RECURSIVE GCD(_, _)
GCD(a, b) == IF b = 0 THEN a ELSE GCD(b, a % b)

Abs(i) == IF i < 0 THEN -i ELSE i

Fin(n, d) ==
  LET g == GCD(Abs(n), Abs(d))
      sgn == IF d < 0 THEN -1 ELSE 1
  IN  [k |-> "fin", n |-> sgn * (n \div g), d |-> sgn * (d \div g)]

Int2Num(i) == Fin(i, 1)
NaN    == [k |-> "nan", n |-> 0, d |-> 1]
PosInf == [k |-> "inf", n |-> 1, d |-> 1]
NegInf == [k |-> "inf", n |-> -1, d |-> 1]

\* Number.isFinite
IsFinite(a) == a.k = "fin"

\* -1, 0 or 1 (not used on NaN)
Sign(a) == IF a.n < 0 THEN -1 ELSE IF a.n > 0 THEN 1 ELSE 0

Inf(sgn) == IF sgn < 0 THEN NegInf ELSE PosInf

\* a < b for numbers that are not NaN
Less(a, b) ==
  IF a.k = "fin" /\ b.k = "fin" THEN a.n * b.d < b.n * a.d
  ELSE IF a.k = "inf" /\ b.k = "inf" THEN a.n < b.n
  ELSE IF a.k = "inf" THEN a.n < 0
  ELSE b.n > 0

\* Math.max, Math.min: NaN when an argument is NaN
MathMax(a, b) ==
  IF a.k = "nan" \/ b.k = "nan" THEN NaN ELSE IF Less(a, b) THEN b ELSE a

MathMin(a, b) ==
  IF a.k = "nan" \/ b.k = "nan" THEN NaN ELSE IF Less(b, a) THEN b ELSE a

\* a + b
Plus(a, b) ==
  IF a.k = "nan" \/ b.k = "nan" THEN NaN
  ELSE IF a.k = "inf" /\ b.k = "inf" THEN (IF a.n = b.n THEN a ELSE NaN)
  ELSE IF a.k = "inf" THEN a
  ELSE IF b.k = "inf" THEN b
  ELSE Fin(a.n * b.d + b.n * a.d, a.d * b.d)

Negate(a) == IF a.k = "nan" THEN NaN ELSE [a EXCEPT !.n = -a.n]

\* a - b
Minus(a, b) == Plus(a, Negate(b))

\* a * b
Times(a, b) ==
  IF a.k = "nan" \/ b.k = "nan" THEN NaN
  ELSE IF a.k = "inf" \/ b.k = "inf"
         THEN (IF Sign(a) * Sign(b) = 0 THEN NaN ELSE Inf(Sign(a) * Sign(b)))
  ELSE Fin(a.n * b.n, a.d * b.d)

\* a / b
Over(a, b) ==
  IF a.k = "nan" \/ b.k = "nan" THEN NaN
  ELSE IF a.k = "inf" /\ b.k = "inf" THEN NaN
  ELSE IF a.k = "inf" THEN Inf(Sign(a) * (IF Sign(b) < 0 THEN -1 ELSE 1))
  ELSE IF b.k = "inf" THEN Int2Num(0)
  ELSE IF b.n = 0 THEN (IF a.n = 0 THEN NaN ELSE Inf(Sign(a)))
  ELSE Fin(a.n * b.d, a.d * b.n)

\* a === b
StrictEq(a, b) == a.k # "nan" /\ b.k # "nan" /\ a = b

clamp01NoFiniteTest(v) == MathMin(Int2Num(1), MathMax(Int2Num(0), v))

clamp01(v) ==
  IF IsFinite(v) THEN MathMin(Int2Num(1), MathMax(Int2Num(0), v)) ELSE Int2Num(0)

mapRangeClampedNoClamp(x, inMin, inMax, outMin, outMax) ==
  IF ~IsFinite(x) \/ ~IsFinite(inMin) \/ ~IsFinite(inMax) \/ StrictEq(inMin, inMax)
    THEN outMin
    ELSE Plus(outMin, Times(Minus(outMax, outMin), Over(Minus(x, inMin), Minus(inMax, inMin))))

mapRangeClamped(x, inMin, inMax, outMin, outMax) ==
  IF ~IsFinite(x) \/ ~IsFinite(inMin) \/ ~IsFinite(inMax) \/ StrictEq(inMin, inMax)
    THEN outMin
    ELSE LET t == MathMin(Int2Num(1),
                          MathMax(Int2Num(0), Over(Minus(x, inMin), Minus(inMax, inMin))))
         IN  Plus(outMin, Times(Minus(outMax, outMin), t))

\* arguments: the halves from -HalfRange/2 to HalfRange/2, and the three
\* values that are not finite
HalfRange == 2
FiniteArgs == {Fin(i, 2) : i \in (-HalfRange)..HalfRange}
NumberArgs == FiniteArgs \cup {NaN, PosInf, NegInf}

\* "not called yet"
NoNumber == [k |-> "none", n |-> 0, d |-> 1]

NumInit ==
  /\ nX \in NumberArgs
  /\ nInMin \in NumberArgs
  /\ nInMax \in NumberArgs
  /\ nOutMin \in NumberArgs
  /\ nOutMax \in NumberArgs
  /\ nClamp = NoNumber
  /\ nMap = NoNumber
  /\ nBlur = NullStr

NumIdle ==
  /\ nX = Int2Num(0)
  /\ nInMin = Int2Num(0)
  /\ nInMax = Int2Num(1)
  /\ nOutMin = Int2Num(0)
  /\ nOutMax = Int2Num(1)
  /\ nClamp = NoNumber
  /\ nMap = NoNumber
  /\ nBlur = NullStr

callClamp01 ==
  /\ nClamp' = clamp01(nX)
  /\ UNCHANGED <<nX, nInMin, nInMax, nOutMin, nOutMax, nMap, nBlur>>
  /\ UNCHANGED notNum

callMapRangeClamped ==
  /\ nMap' = mapRangeClamped(nX, nInMin, nInMax, nOutMin, nOutMax)
  /\ UNCHANGED <<nX, nInMin, nInMax, nOutMin, nOutMax, nClamp, nBlur>>
  /\ UNCHANGED notNum

Digits == <<"0", "1", "2", "3", "4", "5", "6", "7", "8", "9">>

\* the decimal digits of a natural number
RECURSIVE NatToString(_)
NatToString(i) ==
  IF i < 10 THEN <<Digits[i + 1]>> ELSE NatToString(i \div 10) \o <<Digits[(i % 10) + 1]>>

\* the digits after the point of rem/d, for a fraction that terminates
RECURSIVE FractionDigits(_, _)
FractionDigits(rem, d) ==
  IF rem = 0 THEN <<>>
  ELSE <<Digits[((rem * 10) \div d) + 1]>> \o FractionDigits((rem * 10) % d, d)

\* Number::toString as a template literal applies it, for NaN, the
\* infinities and finite values written without an exponent
NumberToString(a) ==
  IF a.k = "nan" THEN <<"N", "a", "N">>
  ELSE IF a.k = "inf"
         THEN (IF a.n < 0 THEN <<"-">> ELSE <<>>)
              \o <<"I", "n", "f", "i", "n", "i", "t", "y">>
  ELSE LET i == Abs(a.n) \div a.d
           rem == Abs(a.n) % a.d
       IN  (IF a.n < 0 THEN <<"-">> ELSE <<>>)
           \o NatToString(i)
           \o (IF rem = 0 THEN <<>> ELSE <<".">> \o FractionDigits(rem, a.d))

BlurOpen  == <<"b", "l", "u", "r", "(">>
BlurClose == <<"p", "x", ")">>

formatBlurNoClamp(px) ==
  LET v == IF IsFinite(px) THEN px ELSE Int2Num(0)
  IN  BlurOpen \o NumberToString(v) \o BlurClose

formatBlur(px) ==
  LET v == IF IsFinite(px) THEN MathMax(Int2Num(0), px) ELSE Int2Num(0)
  IN  BlurOpen \o NumberToString(v) \o BlurClose

callFormatBlur ==
  /\ nBlur' = formatBlur(nX)
  /\ UNCHANGED <<nX, nInMin, nInMax, nOutMin, nOutMax, nClamp, nMap>>
  /\ UNCHANGED notNum

(***************************************************************************)
(* HeroScroll: the works archive and the reduced-motion preference         *)
(***************************************************************************)

TAGSWithUnusedTag ==
  <<"reality", "performance", "installation", "rhythm_game", "projection_mapping", "sound">>

TAGS == <<"reality", "performance", "installation", "rhythm_game", "projection_mapping">>

WORKS ==
  << [id |-> "XEEKIN",
      tags |-> <<"installation", "performance", "reality", "rhythm_game", "projection_mapping">>],
     [id |-> "NOISE CANCELLING",
      tags |-> <<"projection_mapping", "reality", "installation", "projection_mapping">>],
     [id |-> "The Unknown box",
      tags |-> <<"reality", "installation", "projection_mapping">>],
     [id |-> "fog-screen",
      tags |-> <<"reality", "projection_mapping">>],
     [id |-> "Groo",
      tags |-> <<"reality", "installation", "projection_mapping">>] >>

allTags == <<"All">> \o TAGS

\* allTags.filter((t) => t !== "All"): the chips that are rendered
Chips == SelectSeq(allTags, LAMBDA t : t # "All")

filteredWorksAlwaysFilter == SelectSeq(WORKS, LAMBDA w : Includes(w.tags, activeTag))

filteredWorks ==
  IF activeTag = "All" THEN WORKS
  ELSE SelectSeq(WORKS, LAMBDA w : Includes(w.tags, activeTag))

\* window.matchMedia(...) with or without addEventListener
MqApis == {"events", "legacy"}

\* phase: "rendered" after the first render, "mounted" once the effect has
\* run, "unmounted" after the cleanup
PageInit ==
  /\ activeTag = "All"
  /\ phase = "rendered"
  /\ mqMatches \in BOOLEAN
  /\ reduced = FALSE
  /\ listeners \in {[api |-> a, registered |-> FALSE] : a \in MqApis}
  /\ heroProgress = Int2Num(0)
  /\ aboutProg = Int2Num(0)
  /\ scrollYProgress = Int2Num(0)

PageIdle ==
  /\ activeTag = "All"
  /\ phase = "rendered"
  /\ mqMatches = FALSE
  /\ reduced = FALSE
  /\ listeners = [api |-> "events", registered |-> FALSE]
  /\ heroProgress = Int2Num(0)
  /\ aboutProg = Int2Num(0)
  /\ scrollYProgress = Int2Num(0)

mountEffectNoRead ==
  /\ phase = "rendered"
  /\ phase' = "mounted"
  /\ listeners' = [listeners EXCEPT !.registered = (listeners.api = "events")]
  /\ UNCHANGED <<activeTag, mqMatches, reduced, heroProgress, aboutProg, scrollYProgress>>
  /\ UNCHANGED notPage

\* the useEffect body
mountEffect ==
  /\ phase = "rendered"
  /\ phase' = "mounted"
  /\ reduced' = mqMatches
  /\ listeners' = [listeners EXCEPT !.registered = (listeners.api = "events")]
  /\ UNCHANGED <<activeTag, mqMatches, heroProgress, aboutProg,
               scrollYProgress>>
  /\ UNCHANGED notPage

\* the user's preference changes; a registered handler calls setReduced
mqChange ==
  /\ mqMatches' = ~mqMatches
  /\ reduced' = IF listeners.registered THEN mqMatches' ELSE reduced
  /\ UNCHANGED <<activeTag, phase, listeners, heroProgress, aboutProg,
               scrollYProgress>>
  /\ UNCHANGED notPage

unmountKeepsListener ==
  /\ phase = "mounted"
  /\ phase' = "unmounted"
  /\ UNCHANGED <<activeTag, mqMatches, reduced, listeners, heroProgress, aboutProg,
               scrollYProgress>>
  /\ UNCHANGED notPage

\* the useEffect cleanup
unmount ==
  /\ phase = "mounted"
  /\ phase' = "unmounted"
  /\ listeners' = [listeners EXCEPT !.registered = FALSE]
  /\ UNCHANGED <<activeTag, mqMatches, reduced, heroProgress, aboutProg,
               scrollYProgress>>
  /\ UNCHANGED notPage

clickChip ==
  /\ phase # "unmounted"
  /\ \E i \in 1..Len(Chips) : activeTag' = Chips[i]
  /\ UNCHANGED <<phase, mqMatches, reduced, listeners, heroProgress, aboutProg,
               scrollYProgress>>
  /\ UNCHANGED notPage

clickReset ==
  /\ phase # "unmounted"
  /\ activeTag' = "All"
  /\ UNCHANGED <<phase, mqMatches, reduced, listeners, heroProgress, aboutProg,
               scrollYProgress>>
  /\ UNCHANGED notPage

(***************************************************************************)
(* SmartImg and the asset-error list                                       *)
(***************************************************************************)

AboutPng == <<"a", "b", "o", "u", "t", ".", "p", "n", "g">>
HeroMp4  == <<"h", "e", "r", "o", ".", "m", "p", "4">>
LogoWebm == <<"l", "o", "g", "o", ".", "w", "e", "b", "m">>

\* what each work of WORKS passes to asset() for its thumb
WorksDir == <<"w", "o", "r", "k", "s", "/">>
ThumbFiles ==
  <<WorksDir \o <<"X", "E", "E", "K", "I", "N", ".", "p", "n", "g">>,
    WorksDir \o <<"N", "O", "I", "S", "E", "C", "A", "N", "C", "E", "L", "L", "I", "N", "G", ".", "p", "n", "g">>,
    WorksDir \o <<"b", "o", "x", ".", "p", "n", "g">>,
    WorksDir \o <<"f", "o", "g", ".", "p", "n", "g">>,
    WorksDir \o <<"G", "r", "o", "o", ".", "p", "n", "g">>>>

\* w.thumb of the i-th work
thumb(i, doc) == asset(ThumbFiles[i], doc)

\* where "media/" starts in s
MediaDirAt(str) ==
  {i \in 1..Len(str) : Len(str) >= i + 5 /\ SubSeq(str, i, i + 5) = MediaDir}

StripToMediaFirst(str) ==
  IF MediaDirAt(str) = {} THEN str
  ELSE LET first == CHOOSE i \in MediaDirAt(str) : \A j \in MediaDirAt(str) : i <= j
       IN  SubSeq(str, first + 6, Len(str))

\* .replace(/^.*media\//, ''): the greedy .* runs to the last "media/"
StripToMedia(str) ==
  IF MediaDirAt(str) = {} THEN str
  ELSE LET last == CHOOSE i \in MediaDirAt(str) : \A j \in MediaDirAt(str) : j <= i
       IN  SubSeq(str, last + 6, Len(str))

\* .replace(/^\//, '')
StripLeadingSlash(str) == IF StartsWith(str, Slash) THEN Tail(str) ELSE str

\* the sources prop of the i-th work's SmartImg
ThumbSources(i, doc) == assetChain(StripLeadingSlash(StripToMedia(thumb(i, doc))), doc)

\* the updater SmartImg's onError passes to setIdx
onErrorUpdaterWraps(i, sources) == IF i + 1 < Len(sources) THEN i + 1 ELSE 0

onErrorUpdater(i, sources) == IF i + 1 < Len(sources) THEN i + 1 ELSE i

\* the src of the one <img> SmartImg renders (idx counts from 0)
ImgSrc == imgSources[imgIdx + 1]

\* markError's updater
markError(list, url) == IF Includes(list, url) THEN list ELSE Append(list, url)

\* the <source> elements of the background video and the default
\* logoWebmAlphaSrc of the logo video
HeroSources == assetChain(HeroMp4, mDoc)
logoWebmAlphaSrc == asset(LogoWebm, mDoc)

\* the diagnostic panel is rendered
DebugPanelShown == debug /\ Len(assetErrors) > 0

\* error signals delivered to one SmartImg
MaxErrors == 4

\* the sources prop: a chain HeroScroll passes for the about image or for a
\* work's thumbnail, or a single candidate
MediaInit ==
  /\ mDoc \in Docs
  /\ debug \in BOOLEAN
  /\ imgSources \in {assetChain(AboutPng, mDoc), <<asset(AboutPng, mDoc)>>}
                     \cup {ThumbSources(i, mDoc) : i \in 1..Len(ThumbFiles)}
  /\ imgIdx = 0
  /\ imgErrorCount = 0
  /\ assetErrors = <<>>

MediaIdle ==
  /\ mDoc = Doc("nobase", <<>>)
  /\ debug = FALSE
  /\ imgSources = assetChain(AboutPng, Doc("nobase", <<>>))
  /\ imgIdx = 0
  /\ imgErrorCount = 0
  /\ assetErrors = <<>>

\* the <img> of SmartImg fires error
imgError ==
  /\ imgErrorCount < MaxErrors
  /\ imgErrorCount' = imgErrorCount + 1
  /\ imgIdx' = onErrorUpdater(imgIdx, imgSources)
  /\ UNCHANGED <<mDoc, debug, imgSources, assetErrors>>
  /\ UNCHANGED notMedia

\* a <source> of the background video fires error
sourceError ==
  /\ \E i \in 1..Len(HeroSources) : assetErrors' = markError(assetErrors, HeroSources[i])
  /\ UNCHANGED <<mDoc, debug, imgSources, imgIdx, imgErrorCount>>
  /\ UNCHANGED notMedia

\* the logo <video> fires error
logoVideoError ==
  /\ assetErrors' = markError(assetErrors, logoWebmAlphaSrc)
  /\ UNCHANGED <<mDoc, debug, imgSources, imgIdx, imgErrorCount>>
  /\ UNCHANGED notMedia

(***************************************************************************)
(* isLogoOverlayEnabled and shouldUseBlend                                 *)
(***************************************************************************)

\* a value passed as src: undefined, null or a string
Undefined == [t |-> "undefined", s |-> <<>>]
NullValue == [t |-> "null", s |-> <<>>]
StringValue(str) == [t |-> "string", s |-> str]

\* ToBoolean
Truthy(v) == v.t = "string" /\ v.s # <<>>

\* typeof
TypeOf(v) == IF v.t = "null" THEN "object" ELSE v.t

isLogoOverlayEnabledTypeOnly(src) == TypeOf(src) = "string"

isLogoOverlayEnabled(src) == Truthy(src) /\ TypeOf(src) = "string" /\ Len(src.s) > 0

shouldUseBlend(src) == ~isLogoOverlayEnabled(src)

MaxSrcLen == 3
SrcAlphabet == {"/", "a", " "}
SrcValues == {Undefined, NullValue} \cup {StringValue(str) : str \in Strs(SrcAlphabet, MaxSrcLen)}

\* lEnabled, lBlend: <<>> before the call, <<result>> after it
LogoInit ==
  /\ lSrc \in SrcValues
  /\ lEnabled = <<>>
  /\ lBlend = <<>>

LogoIdle ==
  /\ lSrc = Undefined
  /\ lEnabled = <<>>
  /\ lBlend = <<>>

callIsLogoOverlayEnabled ==
  /\ lEnabled' = <<isLogoOverlayEnabled(lSrc)>>
  /\ UNCHANGED <<lSrc, lBlend>>
  /\ UNCHANGED notLogo

callShouldUseBlend ==
  /\ lBlend' = <<shouldUseBlend(lSrc)>>
  /\ UNCHANGED <<lSrc, lEnabled>>
  /\ UNCHANGED notLogo

(***************************************************************************)
(* PortfolioLanding                                                        *)
(***************************************************************************)

projects ==
  << [id |-> "td01",   category |-> "TouchDesigner"],
     [id |-> "un01",   category |-> "Unreal"],
     [id |-> "inst01", category |-> "Installations"],
     [id |-> "td02",   category |-> "TouchDesigner"] >>

categories == <<"TouchDesigner", "Unreal", "Installations", "Etc">>

ProjectIds == {projects[i].id : i \in 1..Len(projects)}

gridStrictCategory(tab) == SelectSeq(projects, LAMBDA q : q.category = tab)

\* projects.filter(...): the cards of the grid under a tab
grid(tab) == SelectSeq(projects, LAMBDA q : IF tab = "Etc" THEN TRUE ELSE q.category = tab)

Rendered(tab, id) == \E i \in 1..Len(grid(tab)) : grid(tab)[i].id = id

\* the in-page anchors of the hero, the header and the footer
Anchors == {"#works", "#about", "#contact"}

\* hover[id] is the hover state of the card of project id, FALSE while no
\* such card is rendered
LandingInit ==
  /\ activeTab = "TouchDesigner"
  /\ mounted = FALSE
  /\ hover = [id \in ProjectIds |-> FALSE]
  /\ hash = ""

LandingIdle == LandingInit

\* useEffect(() => setMounted(true), [])
landingEffect ==
  /\ ~mounted
  /\ mounted' = TRUE
  /\ UNCHANGED <<activeTab, hover, hash>>
  /\ UNCHANGED notLanding

\* a tab of Tabs is clicked; cards that leave the grid are unmounted
setActiveTab ==
  /\ \E i \in 1..Len(categories) :
       /\ activeTab' = categories[i]
       /\ hover' = [id \in ProjectIds |-> hover[id] /\ Rendered(categories[i], id)]
  /\ UNCHANGED <<mounted, hash>>
  /\ UNCHANGED notLanding

onMouseEnter ==
  /\ \E id \in ProjectIds :
       /\ Rendered(activeTab, id)
       /\ hover' = [hover EXCEPT ![id] = TRUE]
  /\ UNCHANGED <<activeTab, mounted, hash>>
  /\ UNCHANGED notLanding

onMouseLeave ==
  /\ \E id \in ProjectIds :
       /\ Rendered(activeTab, id)
       /\ hover' = [hover EXCEPT ![id] = FALSE]
  /\ UNCHANGED <<activeTab, mounted, hash>>
  /\ UNCHANGED notLanding

\* an in-page anchor is followed
clickAnchor ==
  /\ \E a \in Anchors : hash' = a
  /\ UNCHANGED <<activeTab, mounted, hover>>
  /\ UNCHANGED notLanding

(***************************************************************************)
(* Specifications                                                          *)
(***************************************************************************)

FormNext ==
  \/ setName
  \/ setEmail
  \/ setBudget
  \/ setTimeline
  \/ setMessage
  \/ setAgree
  \/ onSubmit

\* the contact form from construction, under edits and submit attempts
InitForm == FormInit /\ MailIdle /\ AssetIdle /\ TagIdle /\ PageIdle /\ NumIdle /\ MediaIdle /\ LogoIdle
  /\ LandingIdle

SpecForm == InitForm /\ [][FormNext]_vars

\* one submit attempt on any payload
InitSubmit == SubmitInit /\ MailIdle /\ AssetIdle /\ TagIdle /\ PageIdle /\ NumIdle /\ MediaIdle /\ LogoIdle
  /\ LandingIdle

SpecSubmit == InitSubmit /\ [][onSubmit]_vars

InitMailto == FormIdle /\ MailInit /\ AssetIdle /\ TagIdle /\ PageIdle /\ NumIdle /\ MediaIdle /\ LogoIdle
  /\ LandingIdle

SpecMailto == InitMailto /\ [][callBuildMailto]_vars

AssetNext ==
  \/ callAsset
  \/ callAssetChain

InitAsset == FormIdle /\ MailIdle /\ AssetInit /\ TagIdle /\ PageIdle /\ NumIdle /\ MediaIdle /\ LogoIdle
  /\ LandingIdle

SpecAsset == InitAsset /\ [][AssetNext]_vars

TagNext ==
  \/ callUniqueTags
  \/ callFilterByTag

InitTags == FormIdle /\ MailIdle /\ AssetIdle /\ TagInit /\ PageIdle /\ NumIdle /\ MediaIdle /\ LogoIdle
  /\ LandingIdle

SpecTags == InitTags /\ [][TagNext]_vars

\* scroll positions the trackers report: 0, 1/ScrollSteps, ..., 1
ScrollSteps == 2
Progress == {Fin(i, ScrollSteps) : i \in 0..ScrollSteps}

\* the page is scrolled: both trackers report a new progress
scroll ==
  /\ phase # "unmounted"
  /\ heroProgress' \in Progress
  /\ aboutProg' \in Progress
  /\ scrollYProgress' \in Progress
  /\ UNCHANGED <<activeTag, phase, mqMatches, reduced, listeners>>
  /\ UNCHANGED notPage

\* useTransform(value, input, output): piecewise linear, clamped at both ends
useTransform(v, input, output) ==
  IF ~Less(input[1], v) THEN output[1]
  ELSE IF ~Less(v, input[Len(input)]) THEN output[Len(output)]
  ELSE LET i == CHOOSE j \in 1..(Len(input) - 1) :
                  ~Less(v, input[j]) /\ Less(v, input[j + 1])
       IN  Plus(output[i],
                Times(Minus(output[i + 1], output[i]),
                      Over(Minus(v, input[i]), Minus(input[i + 1], input[i]))))

\* a decimal literal with two places
Dec(hundredths) == Fin(hundredths, 100)

\* the input breakpoints and output values of every useTransform call
KeyframeTablesOpacityOvershoot ==
  [scaleX       |-> [input |-> <<Dec(0), Dec(100)>>, output |-> <<Dec(0), Dec(100)>>],
   h1Y          |-> [input  |-> <<Dec(0), Dec(50), Dec(100)>>,
                     output |-> <<Int2Num(24), Int2Num(0), Int2Num(-32)>>],
   h1Opacity    |-> [input  |-> <<Dec(0), Dec(15), Dec(60), Dec(100)>>,
                     output |-> <<Dec(0), Dec(100), Dec(92), Dec(85)>>],
   h1Scale      |-> [input |-> <<Dec(0), Dec(100)>>, output |-> <<Dec(102), Dec(100)>>],
   pY           |-> [input  |-> <<Dec(0), Dec(60), Dec(100)>>,
                     output |-> <<Int2Num(16), Int2Num(0), Int2Num(-20)>>],
   pOpacity     |-> [input  |-> <<Dec(0), Dec(20), Dec(80), Dec(100)>>,
                     output |-> <<Dec(0), Dec(100), Dec(95), Dec(90)>>],
   aboutY       |-> [input |-> <<Dec(0), Dec(100)>>, output |-> <<Int2Num(32), Int2Num(0)>>],
   aboutOpacity |-> [input  |-> <<Dec(0), Dec(20), Dec(100)>>,
                     output |-> <<Dec(0), Dec(120), Dec(100)>>],
   aboutScale   |-> [input |-> <<Dec(0), Dec(100)>>, output |-> <<Dec(250), Dec(100)>>]]

KeyframeTables ==
  [scaleX       |-> [input |-> <<Dec(0), Dec(100)>>, output |-> <<Dec(0), Dec(100)>>],
   h1Y          |-> [input  |-> <<Dec(0), Dec(50), Dec(100)>>,
                     output |-> <<Int2Num(24), Int2Num(0), Int2Num(-32)>>],
   h1Opacity    |-> [input  |-> <<Dec(0), Dec(15), Dec(60), Dec(100)>>,
                     output |-> <<Dec(0), Dec(100), Dec(92), Dec(85)>>],
   h1Scale      |-> [input |-> <<Dec(0), Dec(100)>>, output |-> <<Dec(102), Dec(100)>>],
   pY           |-> [input  |-> <<Dec(0), Dec(60), Dec(100)>>,
                     output |-> <<Int2Num(16), Int2Num(0), Int2Num(-20)>>],
   pOpacity     |-> [input  |-> <<Dec(0), Dec(20), Dec(80), Dec(100)>>,
                     output |-> <<Dec(0), Dec(100), Dec(95), Dec(90)>>],
   aboutY       |-> [input |-> <<Dec(0), Dec(100)>>, output |-> <<Int2Num(32), Int2Num(0)>>],
   aboutOpacity |-> [input  |-> <<Dec(0), Dec(20), Dec(100)>>,
                     output |-> <<Dec(0), Dec(100), Dec(100)>>],
   aboutScale   |-> [input |-> <<Dec(0), Dec(100)>>, output |-> <<Dec(250), Dec(100)>>]]

\* the progress each mapping reads
TrackerOf ==
  [scaleX |-> scrollYProgress,
   h1Y |-> heroProgress, h1Opacity |-> heroProgress, h1Scale |-> heroProgress,
   pY |-> heroProgress, pOpacity |-> heroProgress,
   aboutY |-> aboutProg, aboutOpacity |-> aboutProg, aboutScale |-> aboutProg]

\* the same interpolation with clamping switched off: the first and the last
\* segment are continued beyond the table
Extrapolated(v, input, output) ==
  LET n == Len(input)
      i == IF ~Less(input[1], v) THEN 1
           ELSE IF ~Less(v, input[n]) THEN n - 1
           ELSE CHOOSE j \in 1..(n - 1) : ~Less(v, input[j]) /\ Less(v, input[j + 1])
  IN  Plus(output[i],
           Times(Minus(output[i + 1], output[i]),
                 Over(Minus(v, input[i]), Minus(input[i + 1], input[i]))))

Mapped(m) == useTransform(TrackerOf[m], KeyframeTables[m].input, KeyframeTables[m].output)

scaleX       == Mapped("scaleX")
h1Y          == Mapped("h1Y")
h1Opacity    == Mapped("h1Opacity")
h1Scale      == Mapped("h1Scale")
pY           == Mapped("pY")
pOpacity     == Mapped("pOpacity")
aboutY       == Mapped("aboutY")
aboutOpacity == Mapped("aboutOpacity")

aboutScaleUnclamped ==
  Extrapolated(aboutProg, KeyframeTables.aboutScale.input, KeyframeTables.aboutScale.output)

aboutScale   == Mapped("aboutScale")

\* progress values on and around [0,1]: -1, ..., 2 in steps of 1/GridSteps
GridSteps == 5
WideProgress == {Fin(i, GridSteps) : i \in (-GridSteps)..(2 * GridSteps)}

\* one tracker reports a progress, which may lie outside [0,1]
track ==
  /\ phase # "unmounted"
  /\ \E v \in WideProgress :
       \/ heroProgress' = v /\ UNCHANGED <<aboutProg, scrollYProgress>>
       \/ aboutProg' = v /\ UNCHANGED <<heroProgress, scrollYProgress>>
       \/ scrollYProgress' = v /\ UNCHANGED <<heroProgress, aboutProg>>
  /\ UNCHANGED <<activeTag, phase, mqMatches, reduced, listeners>>
  /\ UNCHANGED notPage

\* the style props of the current render
H1Style ==
  [y       |-> IF reduced THEN Int2Num(0) ELSE h1Y,
   opacity |-> IF reduced THEN Int2Num(1) ELSE h1Opacity,
   scale   |-> IF reduced THEN Int2Num(1) ELSE h1Scale]

PStyle ==
  [y       |-> IF reduced THEN Int2Num(0) ELSE pY,
   opacity |-> IF reduced THEN Int2Num(1) ELSE pOpacity]

AboutStyle == [y |-> aboutY, opacity |-> aboutOpacity, scale |-> aboutScale]

\* the initial / animate props of the current render, as a set of
\* <<property, value>> pairs; {} when the prop is undefined
H1Initial == IF reduced THEN {} ELSE {<<"opacity", Int2Num(0)>>, <<"y", Int2Num(24)>>}
H1Animate == IF reduced THEN {} ELSE {<<"opacity", Int2Num(1)>>, <<"y", Int2Num(0)>>}
PInitial  == IF reduced THEN {} ELSE {<<"opacity", Int2Num(0)>>, <<"y", Int2Num(16)>>}
PAnimate  == IF reduced THEN {} ELSE {<<"opacity", Int2Num(1)>>, <<"y", Int2Num(0)>>}

PageNext ==
  \/ mountEffect
  \/ mqChange
  \/ unmount
  \/ clickChip
  \/ clickReset
  \/ scroll

InitPage == FormIdle /\ MailIdle /\ AssetIdle /\ TagIdle /\ PageInit /\ NumIdle /\ MediaIdle /\ LogoIdle
  /\ LandingIdle

SpecPage == InitPage /\ [][PageNext]_vars

NumNext ==
  \/ callClamp01
  \/ callMapRangeClamped
  \/ callFormatBlur

InitNum == FormIdle /\ MailIdle /\ AssetIdle /\ TagIdle /\ PageIdle /\ NumInit /\ MediaIdle /\ LogoIdle
  /\ LandingIdle

SpecNum == InitNum /\ [][NumNext]_vars

KeyframeNext ==
  \/ track
  \/ scroll

InitKeyframes == FormIdle /\ MailIdle /\ AssetIdle /\ TagIdle /\ PageIdle /\ NumIdle /\ MediaIdle /\ LogoIdle
  /\ LandingIdle

SpecKeyframes == InitKeyframes /\ [][KeyframeNext]_vars

LogoNext ==
  \/ callIsLogoOverlayEnabled
  \/ callShouldUseBlend

InitLogo ==
  FormIdle /\ MailIdle /\ AssetIdle /\ TagIdle /\ PageIdle /\ NumIdle /\ MediaIdle /\ LogoInit
  /\ LandingIdle

SpecLogo == InitLogo /\ [][LogoNext]_vars

LandingNext ==
  \/ landingEffect
  \/ setActiveTab
  \/ onMouseEnter
  \/ onMouseLeave
  \/ clickAnchor

InitLanding ==
  /\ FormIdle /\ MailIdle /\ AssetIdle /\ TagIdle /\ PageIdle /\ NumIdle /\ MediaIdle /\ LogoIdle
  /\ LandingInit

SpecLanding == InitLanding /\ [][LandingNext]_vars

MediaNext ==
  \/ imgError
  \/ sourceError
  \/ logoVideoError

InitMedia == FormIdle /\ MailIdle /\ AssetIdle /\ TagIdle /\ PageIdle /\ NumIdle /\ MediaInit /\ LogoIdle
  /\ LandingIdle

SpecMedia == InitMedia /\ [][MediaNext]_vars

(***************************************************************************)
(* Properties of the contact form                                          *)
(***************************************************************************)

\* a string with nothing but white space in it (the empty string included)
Blank(s) == \A i \in 1..Len(s) : IsSpace(s[i])

\* local@domain.tld: one "@", not first; no white space; a "." after the "@"
\* with at least one character between them and at least one after it
HasEmailShape(e) ==
  /\ \A k \in 1..Len(e) : ~IsSpace(e[k])
  /\ \E i \in 2..Len(e) :
       /\ e[i] = "@"
       /\ \A k \in 1..Len(e) : e[k] = "@" => k = i
       /\ \E j \in (i + 2)..(Len(e) - 1) : e[j] = "."

MissingFieldFails    == Blank(name) \/ Blank(email) \/ Blank(message)
InvalidEmailFails    == ~HasEmailShape(email)
ConsentRequiredFails == ~agree
AllChecksPass == ~MissingFieldFails /\ ~InvalidEmailFails /\ ~ConsentRequiredFails

\* the first failing check in the order MissingField, InvalidEmail, ConsentRequired
FirstFailingCheck ==
  IF MissingFieldFails THEN ErrMissingField
  ELSE IF InvalidEmailFails THEN ErrInvalidEmail
  ELSE IF ConsentRequiredFails THEN ErrConsentRequired
  ELSE Null

\* a submit attempt has run on the fields as they stand
Attempted == err # Null \/ effects # <<>>

Navigated == Includes(effects, "navigate")

\* C1: a submit attempt reports exactly the first failing check in the order
\* MissingField, InvalidEmail, ConsentRequired, and no error when none fails.
C1_FirstFailingCheckReported == Attempted => err = FirstFailingCheck

\* C1 witness: an attempt whose email is malformed and whose consent is
\* missing reported the email, the earlier of the two checks.
C1_Witness ==
  /\ Attempted
  /\ ~MissingFieldFails /\ InvalidEmailFails /\ ConsentRequiredFails
  /\ err = ErrInvalidEmail

\* C2: in every submit attempt the handoff happens iff all three checks pass;
\* a failed attempt sets an error and neither navigates nor touches the
\* clipboard; a successful attempt leaves the error null.
C2_HandoffIffAllChecksPass ==
  [][onSubmit =>
       /\ Navigated' <=> AllChecksPass
       /\ AllChecksPass =>
            /\ err' = Null
            /\ StartsWith(location', MailtoScheme)
       /\ ~AllChecksPass =>
            /\ err' \in {ErrMissingField, ErrInvalidEmail, ErrConsentRequired}
            /\ effects' = <<>>
            /\ location' = location
            /\ clipboard' = clipboard]_vars

\* C2 witness: a successful attempt, after which the error is null and the
\* page navigated to a mailto URI.
C2_Witness ==
  /\ Navigated
  /\ AllChecksPass
  /\ err = Null
  /\ StartsWith(location, MailtoScheme)

\* the characters PctTable escapes
Escaped == {" ", LF, "%", "&", "+", "/", ":", "=", "?", "@", "[", "]"}

\* decodeURIComponent: every %XY becomes the character it escapes; nothing
\* else changes (a "+" stays a "+")
RECURSIVE PercentDecode(_)
PercentDecode(s) ==
  IF s = <<>> THEN <<>>
  ELSE IF Head(s) = "%" /\ Len(s) >= 3
            /\ \E c \in Escaped : PctTable(c) = SubSeq(s, 1, 3)
         THEN <<CHOOSE c \in Escaped : PctTable(c) = SubSeq(s, 1, 3)>>
              \o PercentDecode(SubSeq(s, 4, Len(s)))
         ELSE <<Head(s)>> \o PercentDecode(Tail(s))

Contains(s, sub) ==
  \E i \in 0..(Len(s) - Len(sub)) : SubSeq(s, i + 1, i + Len(sub)) = sub

Count(s, c) == Cardinality({i \in 1..Len(s) : s[i] = c})

\* the value of the body parameter: what follows the first "&body="
BodyParam(uri) ==
  IF ~Contains(uri, BodyKey) THEN <<>>
  ELSE LET at == CHOOSE i \in 1..Len(uri) :
                   /\ StartsWith(SubSeq(uri, i, Len(uri)), BodyKey)
                   /\ \A k \in 1..(i - 1) : ~StartsWith(SubSeq(uri, k, Len(uri)), BodyKey)
       IN  SubSeq(uri, at + Len(BodyKey), Len(uri))

\* C3: after a successful attempt the URI is a mailto: URI whose body
\* parameter, percent-decoded, contains the submitted message exactly.
C3_DecodedBodyContainsMessage ==
  Navigated =>
    /\ StartsWith(location, MailtoScheme)
    /\ Contains(PercentDecode(BodyParam(location)), message)

(***************************************************************************)
(* Properties of buildMailto                                               *)
(***************************************************************************)

\* percent-encoding with a space written as "+", character by character
PlusEncodeChar(c) ==
  IF c = " " THEN <<"+">>
  ELSE IF c \in Unreserved THEN <<c>>
  ELSE PctTable(c)

RECURSIVE PlusEncode(_)
PlusEncode(s) == IF s = <<>> THEN <<>> ELSE PlusEncodeChar(Head(s)) \o PlusEncode(Tail(s))

\* C4: buildMailto returns mailto: + to + ?subject= + enc(subject) + &body= +
\* enc(body); the encoded parts hold no space and no "&", "?" or "=", so the
\* URI has exactly the two query parameters subject and body.
C4_MailtoShape ==
  mUri # NullStr =>
    /\ mUri = MailtoScheme \o mTo \o SubjectKey \o PlusEncode(mSubject)
                \o BodyKey \o PlusEncode(mBody)
    /\ \A part \in {SubSeq(mUri, Len(MailtoScheme \o mTo \o SubjectKey) + 1, Len(mUri)
                             - Len(BodyKey \o PlusEncode(mBody))),
                    BodyParam(mUri)} :
         \A c \in {" ", "&", "?", "="} : Count(part, c) = 0
    /\ Count(mUri, "?") = 1
    /\ Count(mUri, "&") = 1
    /\ Count(mUri, "=") = 2
    /\ Count(mUri, " ") = 0

\* C4 witness: a body holding a space, an "&" and text that reads "%20"
\* before encoding has been built into a URI.
C4_Witness ==
  /\ mUri # NullStr
  /\ mSubject # <<>>
  /\ \/ mBody = <<"%", "2", "0">>
     \/ mBody = <<" ", "&", "+">>

(***************************************************************************)
(* Properties of asset and assetChain                                      *)
(***************************************************************************)

XJpg == <<"x", ".", "j", "p", "g">>

IsPassThrough(p) ==
  StartsWith(p, HttpScheme) \/ StartsWith(p, HttpsScheme) \/ StartsWith(p, Slash)

\* the document base path, "/" when the document gives none
BasePath(doc) == IF doc.kind = "base" /\ doc.href # <<>> THEN doc.href ELSE Slash

\* C5: "" for an empty name; the name itself when it starts with http://,
\* https:// or "/"; otherwise base + "media/" + name, base being the document
\* base path (default "/") with a trailing "/" added if missing.
C5_AssetResolution ==
  /\ aResult # NullStr =>
       /\ aName = <<>> => aResult = <<>>
       /\ aName # <<>> /\ IsPassThrough(aName) => aResult = aName
       /\ aName # <<>> /\ ~IsPassThrough(aName) =>
            LET tailLen == Len(MediaDir) + Len(aName)
                prefix  == SubSeq(aResult, 1, Len(aResult) - tailLen)
            IN  /\ EndsWith(aResult, MediaDir \o aName)
                /\ EndsWith(prefix, Slash)
                /\ IF EndsWith(BasePath(aDoc), Slash)
                     THEN prefix = BasePath(aDoc)
                     ELSE prefix = BasePath(aDoc) \o Slash
  /\ asset(XJpg, Doc("nobase", <<>>)) = RootMedia \o XJpg
  /\ asset(XJpg, Doc("base", AppBase \o Slash)) = AppBase \o Slash \o MediaDir \o XJpg
  /\ asset(XJpg, Doc("base", AppBase)) = AppBase \o Slash \o MediaDir \o XJpg

\* C5 witness: a relative name resolved against a base path that lacks the
\* trailing "/".
C5_Witness ==
  /\ aResult # NullStr
  /\ aName = <<"x">>
  /\ aDoc = Doc("base", AppBase)
  /\ aResult = AppBase \o Slash \o MediaDir \o aName

NoDuplicates(seq) == \A i, j \in 1..Len(seq) : seq[i] = seq[j] => i = j

\* C6: the fallback chain holds no two equal entries and holds "/" + name.
C6_ChainDistinctWithBare ==
  aChain # <<>> =>
    /\ NoDuplicates(aChain)
    /\ Includes(aChain, Slash \o aName)

\* C6 witness: a three-entry chain of a relative name under a base path.
C6_Witness ==
  /\ Len(aChain) = 3
  /\ aName = <<"x">>
  /\ aDoc = Doc("base", AppBase \o Slash)

\* the positions of entry e in a chain
PositionsOf(chain, e) == {i \in 1..Len(chain) : chain[i] = e}

\* C7 as stated: the first entry is asset(name); "/media/" + name is present
\* exactly when asset(name) does not start with "/media/", and then second;
\* "/" + name comes after both.
C7_ChainOrderAsStated ==
  aChain # <<>> =>
    LET a     == asset(aName, aDoc)
        media == RootMedia \o aName
        bare  == Slash \o aName
    IN  /\ aChain[1] = a
        /\ Includes(aChain, media) <=> ~StartsWith(a, RootMedia)
        /\ ~StartsWith(a, RootMedia) => PositionsOf(aChain, media) = {2}
        /\ \A i \in PositionsOf(aChain, bare) :
             \A k \in PositionsOf(aChain, a) \cup PositionsOf(aChain, media) : k < i

\* C7 amended: the first entry is asset(name); "/media/" + name is present
\* after the first entry exactly when asset(name) does not start with
\* "/media/", and then second; "/" + name is the last entry, after both.
C7_ChainOrder ==
  aChain # <<>> =>
    LET a     == asset(aName, aDoc)
        media == RootMedia \o aName
        bare  == Slash \o aName
    IN  /\ aChain[1] = a
        /\ (PositionsOf(aChain, media) \ {1} # {}) <=> ~StartsWith(a, RootMedia)
        /\ ~StartsWith(a, RootMedia) => PositionsOf(aChain, media) = {2}
        /\ PositionsOf(aChain, bare) = {Len(aChain)}
        /\ \A i \in PositionsOf(aChain, bare) :
             \A k \in PositionsOf(aChain, a) \cup PositionsOf(aChain, media) : k < i

\* C7 witness: under the default base path asset(name) is itself
\* "/media/" + name, first of a two-entry chain.
C7_Witness ==
  /\ aName = <<"x">>
  /\ aDoc = Doc("nobase", <<>>)
  /\ aChain = <<RootMedia \o aName, Slash \o aName>>

(***************************************************************************)
(* Properties of uniqueTags and filterByTag                                *)
(***************************************************************************)

HasTag(item, tag) == \E k \in 1..Len(item.tags) : item.tags[k] = tag

\* C8: all items in order for "All" or ""; otherwise exactly the items whose
\* tag list holds the tag, in their original order, each at most once; an
\* empty sequence when none matches.
C8_FilterByTag ==
  tFiltered # NoItems =>
    IF tTag \in {"All", ""}
      THEN tFiltered = tItems
      ELSE /\ \A i \in 1..Len(tFiltered) :
                /\ tFiltered[i].id \in 1..Len(tItems)
                /\ tItems[tFiltered[i].id] = tFiltered[i]
                /\ HasTag(tFiltered[i], tTag)
           /\ \A i, j \in 1..Len(tFiltered) : i < j => tFiltered[i].id < tFiltered[j].id
           /\ \A n \in 1..Len(tItems) :
                HasTag(tItems[n], tTag) => \E i \in 1..Len(tFiltered) : tFiltered[i].id = n
           /\ (\A n \in 1..Len(tItems) : ~HasTag(tItems[n], tTag)) => tFiltered = <<>>

\* C8 witness: of two items, the second lists the tag, after another tag,
\* and is the one returned.
C8_Witness ==
  /\ tTag = "x"
  /\ Len(tItems) = 2
  /\ tItems[1].tags = <<"y">>
  /\ tItems[2].tags = <<"y", "x">>
  /\ tFiltered = <<tItems[2]>>

\* C9: every tag of any item is in the result exactly once, and nothing else.
C9_UniqueTags ==
  tUnique # <<Null>> =>
    /\ \A n \in 1..Len(tItems) : \A k \in 1..Len(tItems[n].tags) :
         Cardinality(PositionsOf(tUnique, tItems[n].tags[k])) = 1
    /\ \A i \in 1..Len(tUnique) : \E n \in 1..Len(tItems) : HasTag(tItems[n], tUnique[i])

\* C9 witness: a tag repeated within one item and across items is listed once.
C9_Witness ==
  /\ Len(tItems) = 2
  /\ tItems[1].tags = <<"x", "x">>
  /\ tItems[2].tags = <<"y", "x">>
  /\ tUnique = <<"x", "y">>

(***************************************************************************)
(* Properties of the works archive                                         *)
(***************************************************************************)

InCatalog(tag) == \E n \in 1..Len(WORKS) : HasTag(WORKS[n], tag)

\* C10: the active tag starts as "All", is always "All" or a tag of some
\* catalog item, and changes only in a chip click or a reset click.
C10_ActiveTagInCatalog ==
  /\ activeTag = "All"
  /\ [](activeTag = "All" \/ InCatalog(activeTag))
  /\ [][activeTag' # activeTag => clickChip \/ clickReset]_vars

\* C10 witness: a chip was clicked whose tag a single work carries.
C10_Witness ==
  /\ activeTag = "rhythm_game"
  /\ Len(filteredWorks) = 1

(***************************************************************************)
(* Properties of clamp01 and mapRangeClamped                               *)
(***************************************************************************)

Zero == Int2Num(0)
One  == Int2Num(1)

\* a <= b for finite numbers
AtMost(a, b) == a.n * b.d <= b.n * a.d

Between(r, a, b) ==
  /\ IsFinite(r)
  /\ \/ AtMost(a, r) /\ AtMost(r, b)
     \/ AtMost(b, r) /\ AtMost(r, a)

ClampedIntoRange(x, a, b) ==
  IF AtMost(a, b)
    THEN (IF AtMost(x, a) THEN a ELSE IF AtMost(b, x) THEN b ELSE x)
    ELSE (IF AtMost(a, x) THEN a ELSE IF AtMost(x, b) THEN b ELSE x)

C13_DegenerateGivesOutMin ==
  (/\ nMap # NoNumber
   /\ \/ StrictEq(nInMin, nInMax)
      \/ \E a \in {nX, nInMin, nInMax, nOutMin, nOutMax} : ~IsFinite(a))
  => nMap = nOutMin

(***************************************************************************)
(* Properties of the reduced-motion mode                                   *)
(***************************************************************************)

\* every scroll-mapped value the current render applies
AppliedStyles == <<H1Style, PStyle, AboutStyle>>

\* C14: while reduced-motion mode is active, the heading, sub-copy and
\* about-image values the page applies do not vary when the page is
\* scrolled.
C14_ReducedStylesFixed ==
  [][(scroll /\ reduced /\ reduced') => AppliedStyles' = AppliedStyles]_vars

\* C15: when the preference is active before the mount effect has run, the
\* render of that moment (the first one) has no initial and no animate prop
\* on the heading and on the sub-copy.
C15_NoEntryProps ==
  (phase = "rendered" /\ mqMatches)
    => (H1Initial = {} /\ H1Animate = {} /\ PInitial = {} /\ PAnimate = {})

Min(a, b) == IF a < b THEN a ELSE b

\* C17: each error signal advances the index by exactly one when a next
\* candidate exists and leaves it unchanged otherwise; after k signals over
\* n >= 1 candidates the index is min(k, n-1), stays in 0..n-1, and the one
\* image loads the candidate at that index.
C17_IndexAdvancesByOne ==
  /\ [](/\ Len(imgSources) >= 1
        /\ imgIdx \in 0..(Len(imgSources) - 1)
        /\ imgIdx = Min(imgErrorCount, Len(imgSources) - 1)
        /\ ImgSrc = imgSources[imgIdx + 1])
  /\ [][imgError =>
          /\ imgIdx + 1 < Len(imgSources) => imgIdx' = imgIdx + 1
          /\ imgIdx + 1 >= Len(imgSources) => imgIdx' = imgIdx
          /\ imgIdx' >= imgIdx]_vars

\* C17 witness: more error signals than candidates arrived over a chain of
\* three, and the index rests on the last candidate.
C17_Witness ==
  /\ Len(imgSources) = 3
  /\ imgErrorCount = MaxErrors
  /\ imgIdx = 2

\* C18: once every candidate of the about image's chain has failed, one of
\* them is in the asset-error list.
C18_ImageFailureRecorded ==
  (/\ imgSources = assetChain(AboutPng, mDoc)
   /\ imgErrorCount >= Len(imgSources))
  => \E i \in 1..Len(imgSources) : Includes(assetErrors, imgSources[i])

(***************************************************************************)
(* Properties of the submit handler's effects                              *)
(***************************************************************************)

\* C19: in a successful attempt the handoff is the first thing done and the
\* clipboard write, if attempted at all, comes after it; the handoff is done
\* and no error is set whether the clipboard is absent, throws, rejects or
\* works, and only a working clipboard receives the text.
C19_HandoffBeforeClipboard ==
  [][(onSubmit /\ AllChecksPass) =>
       /\ effects' # <<>>
       /\ effects'[1] = "navigate"
       /\ \A i \in 1..Len(effects') : effects'[i] = "writeText" => i > 1
       /\ location' = Href(name, email, budget, timeline, message)
       /\ err' = Null
       /\ Includes(effects', "writeText") <=> clipboardApi # "absent"
       /\ clipboard' = IF clipboardApi = "ok"
                         THEN ClipboardText(name, email, budget, timeline, message)
                         ELSE clipboard]_vars

\* C19 witness: a successful attempt whose clipboard write threw: the handoff
\* was done first, no error is shown and the clipboard is untouched.
C19_Witness ==
  /\ clipboardApi = "throws"
  /\ effects = <<"navigate", "writeText">>
  /\ StartsWith(location, MailtoScheme)
  /\ err = Null
  /\ clipboard = <<>>

\* C20: a submit attempt never changes name, email, budget, timeline,
\* message or consent; a failed one leaves exactly the message of the first
\* failing check in place of any earlier one and hands nothing off.
C20_SubmitKeepsFields ==
  [][onSubmit =>
       /\ UNCHANGED <<name, email, budget, timeline, message, agree>>
       /\ ~AllChecksPass =>
            /\ err' = FirstFailingCheck
            /\ err' \in {ErrMissingField, ErrInvalidEmail, ErrConsentRequired}
            /\ UNCHANGED <<location, clipboard>>]_vars

\* C20 witness: an attempt failed on the consent check alone, and the
\* fields still hold what was typed.
C20_Witness ==
  /\ err = ErrConsentRequired
  /\ effects = <<>>
  /\ location = PageUrl
  /\ name = <<"a">>
  /\ email = <<"a", "@", "b", ".", "c">>
  /\ message = <<"a", " ", "b">>
  /\ ~agree

(***************************************************************************)
(* Properties of the keyframe tables                                       *)
(***************************************************************************)

MappingNames == DOMAIN KeyframeTables

\* the value the page computes for a mapping
ValueOf ==
  [scaleX |-> scaleX,
   h1Y |-> h1Y, h1Opacity |-> h1Opacity, h1Scale |-> h1Scale,
   pY |-> pY, pOpacity |-> pOpacity,
   aboutY |-> aboutY, aboutOpacity |-> aboutOpacity, aboutScale |-> aboutScale]

\* r lies on the straight line through (x1,y1) and (x2,y2) at x
OnLine(r, x, x1, y1, x2, y2) ==
  Times(Minus(r, y1), Minus(x2, x1)) = Times(Minus(y2, y1), Minus(x, x1))

\* C21: at any progress, below 0 and above 1 included, every mapping gives
\* the first output at or below the first breakpoint, the last output at or
\* above the last breakpoint, and between two neighbouring breakpoints the
\* value on the straight line between their outputs.
C21_ClampedInterpolation ==
  \A m \in MappingNames :
    LET inp == KeyframeTables[m].input
        out == KeyframeTables[m].output
        v   == TrackerOf[m]
        r   == ValueOf[m]
    IN  /\ AtMost(v, inp[1]) => r = out[1]
        /\ AtMost(inp[Len(inp)], v) => r = out[Len(out)]
        /\ \A j \in 1..(Len(inp) - 1) :
             (AtMost(inp[j], v) /\ AtMost(v, inp[j + 1]))
               => /\ OnLine(r, v, inp[j], out[j], inp[j + 1], out[j + 1])
                  /\ Between(r, out[j], out[j + 1])

\* C21 witness: the about tracker is past 1, the hero tracker is below 0 and
\* the page tracker is strictly inside a segment.
C21_Witness ==
  /\ aboutProg = Fin(6, 5) /\ aboutScale = Int2Num(1)
  /\ heroProgress = Fin(-1, 5) /\ h1Y = Int2Num(24)
  /\ scrollYProgress = Fin(2, 5) /\ scaleX = Fin(2, 5)

\* a <= b for every neighbouring pair of the sequence
NonDecreasing(seq) == \A j \in 1..(Len(seq) - 1) : AtMost(seq[j], seq[j + 1])

\* C25: every table has as many outputs as breakpoints, at least two, the
\* breakpoints are non-decreasing from 0 to 1, and the outputs of the
\* opacity tables are within [0,1].
C25_TablesWellFormed ==
  /\ \A m \in MappingNames :
       LET inp == KeyframeTables[m].input
           out == KeyframeTables[m].output
       IN  /\ Len(inp) = Len(out)
           /\ Len(inp) >= 2
           /\ NonDecreasing(inp)
           /\ inp[1] = Zero
           /\ inp[Len(inp)] = One
           /\ \A j \in 1..Len(inp) : Between(inp[j], Zero, One)
  /\ \A m \in {"h1Opacity", "pOpacity", "aboutOpacity"} :
       /\ \A j \in 1..Len(KeyframeTables[m].output) :
            Between(KeyframeTables[m].output[j], Zero, One)
       /\ Between(ValueOf[m], Zero, One)

\* C25 witness: the heading's opacity table is in use at its second
\* breakpoint's neighbour 0.2, where the opacity is between 0.92 and 1.
C25_Witness ==
  /\ heroProgress = Fin(1, 5)
  /\ Less(Dec(92), h1Opacity)
  /\ Less(h1Opacity, One)

(***************************************************************************)
(* Properties of formatBlur                                                *)
(***************************************************************************)

DigitValue(c) == CHOOSE i \in 0..9 : Digits[i + 1] = c

IsDigit(c) == \E i \in 1..10 : Digits[i] = c

RECURSIVE Pow10(_)
Pow10(k) == IF k = 0 THEN 1 ELSE 10 * Pow10(k - 1)

\* the natural number a sequence of digits writes
RECURSIVE DigitsValue(_)
DigitsValue(ds) ==
  IF ds = <<>> THEN 0 ELSE 10 * DigitsValue(SubSeq(ds, 1, Len(ds) - 1)) + DigitValue(ds[Len(ds)])

\* digits, optionally a point and more digits, and no sign
IsUnsignedDecimal(str) ==
  /\ str # <<>>
  /\ \A i \in 1..Len(str) : IsDigit(str[i]) \/ str[i] = "."
  /\ Count(str, ".") <= 1
  /\ IsDigit(str[1]) /\ IsDigit(str[Len(str)])

\* the number an unsigned decimal writes
DecimalValue(str) ==
  IF Count(str, ".") = 0 THEN Fin(DigitsValue(str), 1)
  ELSE LET dot == CHOOSE i \in 1..Len(str) : str[i] = "."
           whole == SubSeq(str, 1, dot - 1)
           frac == SubSeq(str, dot + 1, Len(str))
       IN  Fin(DigitsValue(whole) * Pow10(Len(frac)) + DigitsValue(frac), Pow10(Len(frac)))

\* the text between "blur(" and "px)"
BlurNumber == SubSeq(nBlur, Len(BlurOpen) + 1, Len(nBlur) - Len(BlurClose))

\* C23: formatBlur(px) is "blur(" v "px)" where v is written without a sign
\* and reads back as px for finite px >= 0 and as 0 for negative px, NaN and
\* the infinities; 2.5 gives blur(2.5px).
C23_FormatBlur ==
  /\ nBlur # NullStr =>
       /\ StartsWith(nBlur, BlurOpen)
       /\ EndsWith(nBlur, BlurClose)
       /\ Len(nBlur) > Len(BlurOpen) + Len(BlurClose)
       /\ IsUnsignedDecimal(BlurNumber)
       /\ DecimalValue(BlurNumber)
            = (IF IsFinite(nX) /\ nX.n >= 0 THEN nX ELSE Zero)
  /\ formatBlur(Fin(5, 2)) = <<"b", "l", "u", "r", "(", "2", ".", "5", "p", "x", ")">>
  /\ formatBlur(Int2Num(5)) = <<"b", "l", "u", "r", "(", "5", "p", "x", ")">>
  /\ formatBlur(Int2Num(-3)) = <<"b", "l", "u", "r", "(", "0", "p", "x", ")">>

\* C23 witness: formatBlur of -1/2 gave blur(0px).
C23_Witness ==
  /\ nX = Fin(-1, 2)
  /\ nBlur = <<"b", "l", "u", "r", "(", "0", "p", "x", ")">>

(***************************************************************************)
(* Properties of the logo overlay switches                                 *)
(***************************************************************************)

IsNonEmptyString(v) == v.t = "string" /\ Len(v.s) >= 1

\* C24: isLogoOverlayEnabled(src) is true exactly for a non-empty string,
\* and shouldUseBlend(src) is its negation: of the two, exactly one is true.
C24_OverlayXorBlend ==
  /\ lEnabled # <<>> => (lEnabled[1] <=> IsNonEmptyString(lSrc))
  /\ lBlend # <<>> => (lBlend[1] <=> ~IsNonEmptyString(lSrc))
  /\ (lEnabled # <<>> /\ lBlend # <<>>) => lEnabled[1] # lBlend[1]

\* C24 witness: both were called on the empty string: no overlay, blend.
C24_Witness ==
  /\ lSrc = StringValue(<<>>)
  /\ lEnabled = <<FALSE>>
  /\ lBlend = <<TRUE>>

(***************************************************************************)
(* Properties of the reduced flag, the mail body and the works grid        *)
(***************************************************************************)

ExpectedBody(n, e, b, t, m) ==
  Join(<<NameLabel \o n, EmailLabel \o e>>
         \o (IF b # <<>> THEN <<BudgetLabel \o b>> ELSE <<>>)
         \o (IF t # <<>> THEN <<TimelineLabel \o t>> ELSE <<>>)
         \o <<<<>>, m>>,
       <<LF>>)

\* C28: the body handed off is the Name line, the Email line, the Budget
\* line when budget is non-empty, the Timeline line when timeline is
\* non-empty, one empty line and the message, joined by newlines.
C28_BodyLines ==
  [][(onSubmit /\ AllChecksPass) =>
       location' = buildMailto(to, Subject(name),
                               ExpectedBody(name, email, budget, timeline, message))]_vars

\* the place of a work in the catalog
CatalogIndex(w) == CHOOSE i \in 1..Len(WORKS) : WORKS[i].id = w.id

\* C29: the grid is never empty, its works are works of the catalog in
\* catalog order, each at most once; the empty message is never shown.
C29_GridNeverEmpty ==
  /\ Len(filteredWorks) >= 1
  /\ \A j \in 1..Len(filteredWorks) :
       /\ \E i \in 1..Len(WORKS) : WORKS[i] = filteredWorks[j]
       /\ filteredWorks[j] = WORKS[CatalogIndex(filteredWorks[j])]
  /\ \A j, k \in 1..Len(filteredWorks) :
       j < k => CatalogIndex(filteredWorks[j]) < CatalogIndex(filteredWorks[k])

\* C29 witness: the chip of a tag only one work carries was clicked.
C29_Witness ==
  /\ activeTag = "performance"
  /\ Len(filteredWorks) = 1
  /\ filteredWorks[1].id = "XEEKIN"

(***************************************************************************)
(* Properties of the work thumbnails                                       *)
(***************************************************************************)

\* C27: under every document base the chain built for a work's thumbnail
\* starts with the work's resolved thumbnail URL, so that URL is what a
\* SmartImg given the chain loads first.
C27_ThumbIsFirstCandidate ==
  /\ \A i \in 1..Len(ThumbFiles) : ThumbSources(i, mDoc)[1] = thumb(i, mDoc)
  /\ \A i \in 1..Len(ThumbFiles) :
       (imgSources = ThumbSources(i, mDoc) /\ imgIdx = 0) => ImgSrc = thumb(i, mDoc)

\* C27 witness: under the base "/media/" the first work's thumbnail, whose
\* URL holds "media/" twice, failed to load and the image fell back to the
\* next candidate, "/" + name.
C27_Witness ==
  /\ mDoc = Doc("base", RootMedia)
  /\ thumb(1, mDoc) = RootMedia \o MediaDir \o ThumbFiles[1]
  /\ imgSources = ThumbSources(1, mDoc)
  /\ imgSources[1] = thumb(1, mDoc)
  /\ imgErrorCount = 1
  /\ ImgSrc = Slash \o ThumbFiles[1]

(***************************************************************************)
(* Properties of PortfolioLanding                                          *)
(***************************************************************************)

\* the ids of the cards in the grid, in order
GridIds == [i \in 1..Len(grid(activeTab)) |-> grid(activeTab)[i].id]

\* the ids of the projects of a category, in catalog order
IdsOfCategory(c) ==
  LET picked == SelectSeq(projects, LAMBDA q : q.category = c)
  IN  [i \in 1..Len(picked) |-> picked[i].id]

AllIds == [i \in 1..Len(projects) |-> projects[i].id]

\* C30: the active tab starts as 'TouchDesigner' and is always one of the
\* four categories; the grid shows the projects of the active tab's category
\* in catalog order, and every project under 'Etc'.
C30_TabsAndGrid ==
  /\ activeTab = "TouchDesigner"
  /\ [](/\ activeTab \in {"TouchDesigner", "Unreal", "Installations", "Etc"}
        /\ GridIds = (IF activeTab = "Etc" THEN AllIds ELSE IdsOfCategory(activeTab)))

\* C30 witness: the tab 'Etc' was clicked and the grid shows all four
\* projects in catalog order.
C30_Witness ==
  /\ activeTab = "Etc"
  /\ GridIds = <<"td01", "un01", "inst01", "td02">>

====
